---------------------------- MODULE Spec2Model ----------------------------
(***************************************************************************)
(* Model of bloom-mcp-proxy: the two interception engines                  *)
(*   "loader"  src/bloom-proxy-loader.js                                   *)
(*   "netint"  src/index.js lines 387-576 (network-interceptor.js)         *)
(* and the two launchers of src/index.js that build their environment.     *)
(*                                                                         *)
(* JavaScript strings are TLA+ strings; undefined/null is the value Undef. *)
(* A JavaScript argument is a tagged record: [t |-> "undefined"],          *)
(* [t |-> "string", s |-> ...], [t |-> "function", id |-> ...],            *)
(* [t |-> "object", o |-> <options record>].                               *)
(***************************************************************************)
EXTENDS Integers, Sequences, FiniteSets, TLC

\* ------------------------------------------------------------------ bounds
\* How many times the engine's installation code may run in one process.
MaxInstalls == 2
\* Depth of nested entry-point invocations followed before the call stack
\* is taken to be exhausted (RangeError).
MaxStack == 6

\* ------------------------------------------------------- JavaScript values
Undef == "<undefined>"

Truthy(x) == x # Undef /\ x # ""

\* a || b
Or(a, b) == IF Truthy(a) THEN a ELSE b

Min(a, b) == IF a < b THEN a ELSE b
Max(a, b) == IF a > b THEN a ELSE b

\* s.substring(i-1, j) with 1-based inclusive bounds, empty when out of range
Sub(s, i, j) ==
  IF i > j \/ i > Len(s) \/ j < 1 THEN "" ELSE SubSeq(s, Max(i, 1), Min(j, Len(s)))

From(s, i) == Sub(s, i, Len(s))

\* s.startsWith(t)
StartsWith(s, t) == Sub(s, 1, Len(t)) = t

\* the 1-based positions at which t occurs in s
Occurrences(s, t) == {i \in 1..(Len(s) - Len(t) + 1) : Sub(s, i, i + Len(t) - 1) = t}

\* s.includes(t)
Includes(s, t) ==
  t = "" \/ \E i \in 1..(Len(s) - Len(t) + 1) : SubSeq(s, i, i + Len(t) - 1) = t

\* the first position >= i at which t occurs in s, 0 when there is none
RECURSIVE FindFrom(_, _, _)
FindFrom(s, t, i) ==
  IF i + Len(t) - 1 > Len(s) THEN 0
  ELSE IF SubSeq(s, i, i + Len(t) - 1) = t THEN i
  ELSE FindFrom(s, t, i + 1)

\* the last position <= i at which t occurs in s, 0 when there is none
RECURSIVE FindBack(_, _, _)
FindBack(s, t, i) ==
  IF i < 1 THEN 0
  ELSE IF SubSeq(s, i, i + Len(t) - 1) = t THEN i
  ELSE FindBack(s, t, i - 1)

\* s.indexOf(t) as a 1-based position, 0 when t does not occur
IndexOf(s, t) == FindFrom(s, t, 1)

LastIndexOf(s, t) == FindBack(s, t, Len(s) - Len(t) + 1)

\* s.replace(t, r) with a string pattern: the first occurrence only
ReplaceFirst(s, t, r) ==
  LET p == IndexOf(s, t)
  IN  IF p = 0 THEN s ELSE Sub(s, 1, p - 1) \o r \o From(s, p + Len(t))

\* s.split(t)[0] and s.split(t)[1] (Undef when there is no second part)
SplitPart0(s, t) ==
  LET p == IndexOf(s, t) IN IF p = 0 THEN s ELSE Sub(s, 1, p - 1)

SplitPart1(s, t) ==
  LET p == IndexOf(s, t)
  IN  IF p = 0 THEN Undef ELSE SplitPart0(From(s, p + Len(t)), t)

UpperCase == <<"A","B","C","D","E","F","G","H","I","J","K","L","M",
               "N","O","P","Q","R","S","T","U","V","W","X","Y","Z">>
LowerCase == <<"a","b","c","d","e","f","g","h","i","j","k","l","m",
               "n","o","p","q","r","s","t","u","v","w","x","y","z">>

UpperSet == {UpperCase[k] : k \in DOMAIN UpperCase}
LowerOf == [c \in UpperSet |-> LowerCase[CHOOSE k \in DOMAIN UpperCase : UpperCase[k] = c]]

LowerChar(c) == IF c \in UpperSet THEN LowerOf[c] ELSE c

RECURSIVE ToLowerCase(_)
ToLowerCase(s) ==
  IF s = "" THEN "" ELSE LowerChar(SubSeq(s, 1, 1)) \o ToLowerCase(From(s, 2))

\* --------------------------------------------------------- options objects
\* The properties of a request-options object the engines read or write.
\* headers is a mapping from header name to value, << >> when absent.
EmptyOptions ==
  [protocol |-> Undef, hostname |-> Undef, host |-> Undef, port |-> Undef,
   path |-> Undef, pathname |-> Undef, search |-> Undef, href |-> Undef,
   method |-> Undef, headers |-> << >>]

OptionFields == DOMAIN EmptyOptions

\* { ...a, ...b }: the properties b has win
Spread(a, b) ==
  [f \in OptionFields |->
     IF f = "headers"
     THEN (IF DOMAIN b.headers # {} THEN b.headers ELSE a.headers)
     ELSE (IF b[f] # Undef THEN b[f] ELSE a[f])]

\* { ...h, k1: v1, ... }: the literal's own keys win over the spread ones
WithHeaders(h, own) ==
  [k \in (DOMAIN h) \cup (DOMAIN own) |-> IF k \in DOMAIN own THEN own[k] ELSE h[k]]

\* delete h[k]
DeleteHeader(h, k) == [n \in (DOMAIN h) \ {k} |-> h[n]]

\* ------------------------------------------------------------ URL parsing
\* Both parsers are modelled on address strings of the shape
\*   [scheme "://" host [":" port]] [path] ["?" query]
\* with an optional [..] around an IPv6 host.

\* position of the first "/" or "?" of s, Len(s)+1 when there is none
FirstOf(len, a, b) ==
  IF a = 0 /\ b = 0 THEN len + 1
  ELSE IF a = 0 THEN b ELSE IF b = 0 THEN a ELSE Min(a, b)

AuthorityEnd(s) == FirstOf(Len(s), IndexOf(s, "/"), IndexOf(s, "?"))

\* hostname and port of "host", "host:port", "[v6]" or "[v6]:port"; colon and
\* bracket are the positions of the last ":" and of "]"
HostAt(authority, colon, bracket) ==
  IF bracket # 0 THEN Sub(authority, 2, bracket - 1)
  ELSE IF colon = 0 THEN authority
  ELSE Sub(authority, 1, colon - 1)

PortAt(authority, colon, bracket) ==
  IF colon = 0 \/ colon < bracket \/ From(authority, colon + 1) = "" THEN Undef
  ELSE From(authority, colon + 1)

HostOf(authority) ==
  HostAt(authority, LastIndexOf(authority, ":"), IndexOf(authority, "]"))

PortOf(authority) ==
  PortAt(authority, LastIndexOf(authority, ":"), IndexOf(authority, "]"))

\* url.parse of an address without a scheme: it is all path; q is the
\* position of its "?"
UrlParsePath(s, q) ==
  [EmptyOptions EXCEPT
     !.pathname = IF q = 0 THEN s ELSE Sub(s, 1, q - 1),
     !.search = IF q = 0 THEN Undef ELSE From(s, q),
     !.path = s,
     !.href = s]

\* url.parse of scheme://authority tail; q is the position of the "?" of tail.
\* An empty path of an http(s) address reads "/".
UrlParseParts(s, protocol, authority, tail, q) ==
  [EmptyOptions EXCEPT
     !.protocol = protocol,
     !.host = authority,
     !.hostname = HostOf(authority),
     !.port = PortOf(authority),
     !.pathname = IF q = 1 \/ tail = "" THEN "/"
                  ELSE IF q = 0 THEN tail ELSE Sub(tail, 1, q - 1),
     !.search = IF q = 0 THEN Undef ELSE From(tail, q),
     !.path = (IF q = 1 \/ tail = "" THEN "/"
               ELSE IF q = 0 THEN tail ELSE Sub(tail, 1, q - 1))
              \o (IF q = 0 THEN "" ELSE From(tail, q)),
     !.href = s]

\* rest is what follows "://", e the end of its authority
UrlParseRest(s, protocol, rest, e) ==
  UrlParseParts(s, protocol, ToLowerCase(Sub(rest, 1, e - 1)), From(rest, e),
                IndexOf(From(rest, e), "?"))

\* The legacy parser escapes the characters of its autoEscape list wherever
\* they stand behind the scheme; of the model's characters these are the
\* quote and the space.
AutoEscapeChar(c) == IF c = "'" THEN "%27" ELSE IF c = " " THEN "%20" ELSE c

RECURSIVE AutoEscape(_)
AutoEscape(s) ==
  IF s = "" THEN "" ELSE AutoEscapeChar(SubSeq(s, 1, 1)) \o AutoEscape(From(s, 2))

\* p is the position of "://" in s
UrlParseAt(s, p) ==
  IF p = 0 THEN UrlParsePath(AutoEscape(s), IndexOf(AutoEscape(s), "?"))
  ELSE UrlParseRest(s, ToLowerCase(Sub(s, 1, p)), AutoEscape(From(s, p + 3)),
                    AuthorityEnd(From(s, p + 3)))

\* url.parse(s) of Node's legacy parser
UrlParse(s) == UrlParseAt(s, IndexOf(s, "://"))

DefaultPort(protocol) == IF protocol = "https:" THEN "443" ELSE "80"

\* The URL object a parsed address makes: a scheme's default port reads "",
\* a missing query reads "".
URLOf(u) ==
  [ok |-> TRUE,
   protocol |-> u.protocol,
   hostname |-> u.hostname,
   port |-> IF u.port = Undef \/ u.port = DefaultPort(u.protocol) THEN "" ELSE u.port,
   pathname |-> u.pathname,
   search |-> IF u.search = Undef \/ u.search = "?" THEN "" ELSE u.search]

\* new URL(s) of the WHATWG parser: ok is FALSE when the constructor throws
\* (TypeError: Invalid URL), as it does for undefined and for a string
\* without a scheme.
NewURL(s) ==
  IF s = Undef \/ ~ Includes(s, "://")
  THEN [ok |-> FALSE, protocol |-> Undef, hostname |-> Undef, port |-> Undef,
        pathname |-> Undef, search |-> Undef]
  ELSE URLOf(UrlParse(s))

\* ------------------------------------------------------- argument values
JsUndefined == [t |-> "undefined"]
JsString(s) == [t |-> "string", s |-> s]
JsObject(o) == [t |-> "object", o |-> o]
JsFunction(id) == [t |-> "function", id |-> id]

\* JavaScript truthiness of an argument value
TruthyArg(v) ==
  CASE v.t = "undefined" -> FALSE
    [] v.t = "string" -> v.s # ""
    [] OTHER -> TRUE

\* the options object an argument stands for ({} for anything else)
ObjectOf(v) == IF v.t = "object" THEN v.o ELSE EmptyOptions

\* ------------------------------------------- the runtime's entry points
\* What the two physical entry points http.request / https.request of the
\* runtime do with the arguments handed to them (ClientRequest): which
\* options and which response listener the request gets, and whether the
\* constructor throws.
EntryProtocol(entry) == IF entry = "https" THEN "https:" ELSE "http:"

NodeOptions(a1, a2) ==
  IF a1.t = "string"
  THEN (IF a2.t = "object" THEN Spread(UrlParse(a1.s), a2.o) ELSE UrlParse(a1.s))
  ELSE ObjectOf(a1)

NodeCallback(a1, a2, a3) ==
  IF a1.t = "string"
  THEN (IF a2.t = "function" THEN a2 ELSE a3)
  ELSE a2

NodeError(entry, a1, a2, a3) ==
  IF Or(NodeOptions(a1, a2).protocol, EntryProtocol(entry)) # EntryProtocol(entry)
  THEN "ERR_INVALID_PROTOCOL"
  ELSE IF TruthyArg(NodeCallback(a1, a2, a3)) /\ NodeCallback(a1, a2, a3).t # "function"
       THEN "ERR_INVALID_ARG_TYPE"
       ELSE "none"

\* One invocation of a physical entry point with the arguments it was given.
Delivery(entry, a1, a2, a3) == [entry |-> entry, a1 |-> a1, a2 |-> a2, a3 |-> a3]

\* the request a delivery makes: its options and its response listener
OptionsOf(d) == NodeOptions(d.a1, d.a2)
CallbackOf(d) == NodeCallback(d.a1, d.a2, d.a3)

\* The result of running an entry point (wrapped or not) on one call:
\* the deliveries to the physical entry points in order, the exception the
\* call ends with ("none" when it returns a request handle), and the lines
\* written to the error stream.
Outcome(sent, err, log) == [sent |-> sent, err |-> err, log |-> log]

NodeRequest(entry, a1, a2, a3) ==
  Outcome(<<Delivery(entry, a1, a2, a3)>>, NodeError(entry, a1, a2, a3), {})

\* an outcome with more log lines in front of it
Logged(lines, o) == [o EXCEPT !.log = lines \cup o.log]

\* ------------------------------------------------------------------ state
VARIABLES
  pc,        \* "start", "child" (the monitored process runs), "exited", "crashed"
  variant,   \* which engine the monitored process preloads: "loader", "netint"
  env,       \* the environment of the process the engine is loaded into
  loaded,    \* whether the engine's module code has run
  consts,    \* the module-level constants the engine computed when it loaded
  wrapDepth, \* how many wrappers are stacked on http.request / https.request
  stdout,    \* kinds of lines written to the standard output stream
  stderr,    \* kinds of lines written to the error stream
  call,      \* the caller's outbound call being handled, NoCall when idle
  result,    \* the Outcome of that call
  invoked    \* the completion callbacks invoked so far for that call, and
             \* "error" once its handle has emitted 'error'

vars == <<pc, variant, env, loaded, consts, wrapDepth, stdout, stderr, call, result, invoked>>

\* ================================================== bloom-proxy-loader.js
BLOOM_PROXY_DEV == "http://localhost:8000"
BLOOM_PROXY_PROD == "https://api.bloomtechnologies.app"

getDefaultProxy ==
  IF env.NODE_ENV = "development" \/ Truthy(env.DEBUG)
  THEN BLOOM_PROXY_DEV
  ELSE BLOOM_PROXY_PROD

BLOOM_AUTH == env.BLOOM_AUTH
BLOOM_PROXY == Or(env.BLOOM_PROXY, getDefaultProxy)
DEBUG == Or(env.DEBUG, "")
MCP_SERVICE_NAME == env.MCP_SERVICE_NAME

\* BLOOM_AUTH.match(/bloom_org_(.+)_agent_(.+)$/): the positions of "_agent_"
\* that leave one character or more before them (after the leftmost
\* "bloom_org_" that admits a match) and after them.
AuthAgentMarks(auth) ==
  {j \in Occurrences(auth, "_agent_") :
     /\ j + 7 <= Len(auth)
     /\ \E i \in Occurrences(auth, "bloom_org_") : j >= i + 11}

authMatch(auth) == auth # Undef /\ AuthAgentMarks(auth) # {}

\* authMatch[2]: the first group is greedy, so the last "_agent_" splits
authMatch2(auth) ==
  LET marks == AuthAgentMarks(auth)
  IN  From(auth, (CHOOSE j \in marks : \A k \in marks : j >= k) + 7)

\* const agentId = authMatch[2], computed when the module loads
L_agentId == consts.agentId

\* debug(msg): a line on the error stream when DEBUG contains "bloom"
L_debug(kind) == IF Includes(DEBUG, "bloom") THEN {"[bloom-proxy] " \o kind} ELSE {}

L_extractServiceName(hostname) ==
  IF Truthy(MCP_SERVICE_NAME) THEN MCP_SERVICE_NAME ELSE "mcp"

\* const proxyUrl = url.parse(BLOOM_PROXY), computed when the module loads
proxyUrl == consts.proxyUrl
\* url.parse leaves hostname null when the address has none
proxyHost == proxyUrl.hostname

IsPrivateRange(hostname) ==
  \/ StartsWith(hostname, "10.")
  \/ /\ StartsWith(hostname, "172.")
     /\ Sub(hostname, 5, 6) \in {"16", "17", "18", "19", "20", "21", "22", "23",
                                 "24", "25", "26", "27", "28", "29", "30", "31"}
     /\ Sub(hostname, 7, 7) = "."
  \/ StartsWith(hostname, "192.168.")

\* shouldIntercept past its first line, on the hostname it reads
L_shouldInterceptHost(hostname) ==
  /\ ~ (hostname = proxyHost
        \/ Includes(hostname, IF proxyHost = Undef THEN "null" ELSE proxyHost))
  /\ ~ (hostname = "localhost" \/ hostname = "127.0.0.1" \/ hostname = "::1")
  /\ ~ IsPrivateRange(hostname)
  /\ ~ (\/ Includes(hostname, "registry.npmjs.org")
        \/ Includes(hostname, "registry.yarnpkg.com")
        \/ Includes(hostname, "unpkg.com")
        \/ Includes(hostname, "cdn.jsdelivr.net"))

L_shouldIntercept(options) ==
  L_shouldInterceptHost(Or(options.hostname, Or(options.host, "")))

\* createInterceptor, argument normalization: the effective request options,
\* and the options and callback as the function's parameters end up
L_requestOptions(a1, a2) ==
  IF a1.t = "string"
  THEN Spread(UrlParse(a1.s), ObjectOf(a2))
  ELSE IF a2.t # "function" /\ TruthyArg(a2)
       THEN Spread(ObjectOf(a1), ObjectOf(a2))
       ELSE ObjectOf(a1)

L_options(a1, a2) ==
  IF a1.t = "string"
  THEN (IF a2.t = "function" \/ ~ TruthyArg(a2) THEN JsObject(EmptyOptions) ELSE a2)
  ELSE a2

L_callback(a2, a3) == IF a2.t = "function" THEN a2 ELSE a3

\* const hostname = requestOptions.hostname || requestOptions.host || ''
L_hostname(requestOptions) == Or(requestOptions.hostname, Or(requestOptions.host, ""))

\* const originalPath = requestOptions.path || requestOptions.pathname || '/'
L_originalPath(requestOptions) == Or(requestOptions.path, Or(requestOptions.pathname, "/"))

L_proxyPath(requestOptions) ==
  "/proxy/" \o L_extractServiceName(L_hostname(requestOptions))
            \o L_originalPath(requestOptions)

\* headers: { ...requestOptions.headers, 'X-Original-Host': hostname, ... }
L_builtHeaders(headers, hostname, serviceName) ==
  WithHeaders(headers,
    [k \in {"X-Original-Host", "X-Service-Name", "X-MCP-Service"} |->
       IF k = "X-Original-Host" THEN hostname ELSE serviceName])

\* the six delete statements
L_removeHeaders(h) ==
  DeleteHeader(DeleteHeader(DeleteHeader(DeleteHeader(DeleteHeader(DeleteHeader(h,
    "host"), "Host"), "authorization"), "Authorization"), "x-api-key"), "X-API-KEY")

\* the two assignments after them
L_addBloomAuth(h) ==
  WithHeaders(h,
    [k \in {"Authorization", "X-Agent-ID"} |->
       IF k = "Authorization" THEN "Bearer " \o BLOOM_AUTH ELSE L_agentId])

L_proxyHeaders(requestOptions) ==
  L_addBloomAuth(L_removeHeaders(
    L_builtHeaders(requestOptions.headers, L_hostname(requestOptions),
                   L_extractServiceName(L_hostname(requestOptions)))))

L_proxyOptions(requestOptions) ==
  [EmptyOptions EXCEPT
     !.protocol = proxyUrl.protocol,
     !.hostname = proxyUrl.hostname,
     !.port = Or(proxyUrl.port, DefaultPort(proxyUrl.protocol)),
     !.path = L_proxyPath(requestOptions),
     !.method = Or(requestOptions.method, "GET"),
     !.headers = L_proxyHeaders(requestOptions)]

ProxyModule == IF proxyUrl.protocol = "https:" THEN "https" ELSE "http"

\* The function installed on http.request / https.request after `layer`
\* installations, applied to (urlOrOptions, options, callback) = (a1, a2, a3);
\* layer 0 is the runtime's own entry point.  originalMethod of layer k is
\* layer k-1 of the same entry; ProxyModule.request is whatever is installed
\* now, that is layer wrapDepth.  stack is the call-stack depth left.
RECURSIVE createInterceptor(_, _, _, _, _, _)

\* the function's body once its arguments are normalized
L_intercept(entry, layer, a1, options, callback, requestOptions, stack) ==
  IF ~ L_shouldIntercept(requestOptions)
  THEN Logged(L_debug("Bypassing"),
              createInterceptor(entry, layer - 1, a1, options, callback, stack - 1))
  ELSE Logged(L_debug("Intercepting") \cup L_debug("Request will be forwarded as-is"),
              createInterceptor(ProxyModule, wrapDepth,
                                JsObject(L_proxyOptions(requestOptions)),
                                callback, JsUndefined, stack - 1))

createInterceptor(entry, layer, a1, a2, a3, stack) ==
  IF stack = 0 THEN Outcome(<<>>, "RangeError", {})
  ELSE IF layer = 0 THEN NodeRequest(entry, a1, a2, a3)
  ELSE L_intercept(entry, layer, a1, L_options(a1, a2), L_callback(a2, a3),
                   L_requestOptions(a1, a2), stack)

\* ============================== network-interceptor (src/index.js 387-576)
config ==
  [service |-> env.BLOOM_INTERCEPT_SERVICE,
   proxyBase |-> env.BLOOM_INTERCEPT_PROXY,
   orgKey |-> env.BLOOM_INTERCEPT_ORG_KEY,
   agentId |-> env.BLOOM_INTERCEPT_AGENT_ID,
   debug |-> env.BLOOM_INTERCEPT_DEBUG = "true"]

N_debug(kind) == IF config.debug THEN {"[bloom-proxy] " \o kind} ELSE {}

\* building WHITELIST throws when new URL(config.proxyBase) does
WhitelistThrows == Truthy(config.proxyBase) /\ ~ NewURL(config.proxyBase).ok

\* u is new URL(config.proxyBase)
WhitelistWith(proxyBase, u) ==
  {"localhost", "127.0.0.1", "0.0.0.0", "registry.npmjs.org", "registry.yarnpkg.com",
   "api.bloomtechnologies.app", "bloomtechnologies.app"}
  \cup (IF Truthy(proxyBase) /\ u.ok THEN {u.hostname} ELSE {})

WhitelistAt(proxyBase) == WhitelistWith(proxyBase, NewURL(proxyBase))

\* const WHITELIST, computed when the module loads
WHITELIST == consts.WHITELIST

\* SERVICE_MAP in insertion order
SERVICE_MAP ==
  << <<"api.github.com", "github">>, <<"api.notion.com", "notion">>,
     <<"slack.com", "slack">>, <<"api.slack.com", "slack">>,
     <<"api.openai.com", "openai">>, <<"api.anthropic.com", "anthropic">>,
     <<"api.firecrawl.dev", "firecrawl">>, <<"api.hubspot.com", "hubspot">>,
     <<"api.salesforce.com", "salesforce">>, <<"api.stripe.com", "stripe">>,
     <<"api.twilio.com", "twilio">> >>

\* the entries whose domain the hostname contains
ServiceHits(hostname) ==
  {i \in 1..Len(SERVICE_MAP) : Includes(hostname, SERVICE_MAP[i][1])}

FirstService(hits) ==
  IF hits = {} THEN Undef
  ELSE SERVICE_MAP[CHOOSE i \in hits : \A j \in hits : i <= j][2]

\* the service of the first entry whose domain the hostname contains, null
\* when none does
detectService(hostname) ==
  IF ~ Truthy(hostname) THEN Undef ELSE FirstService(ServiceHits(hostname))

\* shouldIntercept without its last check, the one for unknown services
N_shouldInterceptAnyService(hostname) ==
  /\ Truthy(config.orgKey) /\ Truthy(config.agentId)
  /\ ~ (hostname # Undef /\ \E item \in WHITELIST : Includes(hostname, item))

N_shouldIntercept(hostname) ==
  /\ Truthy(config.orgKey) /\ Truthy(config.agentId)
  /\ ~ (hostname # Undef /\ \E item \in WHITELIST : Includes(hostname, item))
  /\ ~ (detectService(hostname) = Undef /\ ~ Truthy(config.service))

\* the lines shouldIntercept writes through debug
N_shouldInterceptLog(hostname) ==
  IF ~ (Truthy(config.orgKey) /\ Truthy(config.agentId))
  THEN N_debug("Skipping interception - missing auth config")
  ELSE IF hostname # Undef /\ \E item \in WHITELIST : Includes(hostname, item)
  THEN N_debug("Skipping whitelisted host")
  ELSE IF detectService(hostname) = Undef /\ ~ Truthy(config.service)
  THEN N_debug("Skipping unknown service")
  ELSE N_debug("Will intercept")

\* normalizeOptions once options is an object and protocol is known
normalizeObject(options, protocol) ==
  [options EXCEPT
     !.href = protocol \o "//"
              \o Or(options.hostname,
                    Or(IF options.host = Undef THEN Undef
                       ELSE SplitPart0(options.host, ":"), "localhost"))
              \o ":" \o Or(options.port, DefaultPort(protocol))
              \o Or(options.pathname,
                    Or(IF options.path = Undef THEN Undef
                       ELSE SplitPart0(options.path, "?"), "/"))
              \o Or(options.search,
                    IF options.path # Undef /\ Includes(options.path, "?")
                    THEN "?" \o SplitPart1(options.path, "?") ELSE ""),
     !.protocol = protocol,
     !.hostname = Or(options.hostname,
                     Or(IF options.host = Undef THEN Undef
                        ELSE SplitPart0(options.host, ":"), "localhost")),
     !.port = Or(options.port, DefaultPort(protocol)),
     !.pathname = Or(options.pathname,
                     Or(IF options.path = Undef THEN Undef
                        ELSE SplitPart0(options.path, "?"), "/")),
     !.search = Or(options.search,
                   IF options.path # Undef /\ Includes(options.path, "?")
                   THEN "?" \o SplitPart1(options.path, "?") ELSE "")]

normalizeParsed(options, defaultProtocol) ==
  normalizeObject(options, Or(options.protocol, defaultProtocol))

normalizeOptions(a1, defaultProtocol) ==
  normalizeParsed(IF a1.t = "string" THEN UrlParse(a1.s) ELSE ObjectOf(a1),
                  defaultProtocol)

\* The characters the URL setters percent-encode, among those of the model's
\* addresses.
PctEncodeChar(c) == IF c = " " THEN "%20" ELSE c

RECURSIVE PctEncode(_)
PctEncode(s) == IF s = "" THEN "" ELSE PctEncodeChar(Sub(s, 1, 1)) \o PctEncode(From(s, 2))

\* proxyUrl.pathname = v
URLSetPathname(v) == PctEncode(IF StartsWith(v, "/") THEN v ELSE "/" \o v)

\* the query of an http(s) URL also has its quotes percent-encoded
QueryEncodeChar(c) == IF c = "'" THEN "%27" ELSE PctEncodeChar(c)

RECURSIVE QueryEncode(_)
QueryEncode(s) ==
  IF s = "" THEN "" ELSE QueryEncodeChar(Sub(s, 1, 1)) \o QueryEncode(From(s, 2))

\* proxyUrl.search = v
URLSetSearch(v) ==
  IF v = "" \/ v = "?" THEN ""
  ELSE "?" \o QueryEncode(IF StartsWith(v, "?") THEN From(v, 2) ELSE v)

N_service(originalOptions) == Or(detectService(originalOptions.hostname), config.service)

\* u is proxyUrl = new URL(config.proxyBase)
N_proxyHeaders(originalOptions, u) ==
  WithHeaders(originalOptions.headers,
    [k \in {"Authorization", "X-Original-Host", "X-Bloom-Intercepted", "host"} |->
       CASE k = "Authorization" ->
              "Bearer bloom_" \o config.orgKey \o "_agent_" \o config.agentId
         [] k = "X-Original-Host" -> originalOptions.hostname
         [] k = "X-Bloom-Intercepted" -> "true"
         [] OTHER -> u.hostname])

N_proxyOptionsVia(originalOptions, u) ==
  [EmptyOptions EXCEPT
     !.protocol = u.protocol,
     !.hostname = u.hostname,
     !.port = Or(u.port, DefaultPort(u.protocol)),
     !.path = URLSetPathname("/proxy/" \o N_service(originalOptions)
                             \o originalOptions.pathname)
              \o URLSetSearch(Or(originalOptions.search, "")),
     !.method = Or(originalOptions.method, "GET"),
     !.headers = N_proxyHeaders(originalOptions, u)]

N_proxyOptions(originalOptions) ==
  N_proxyOptionsVia(originalOptions, NewURL(config.proxyBase))

\* The function installed on http.request / https.request after `layer`
\* loads of the module, applied to (options, callback) = (a1, a2); a third
\* argument is not a parameter and is dropped.  Layer k captured
\* originalHttpRequest = layer k-1 of http and originalHttpsRequest = layer
\* k-1 of https.  stack is the call-stack depth left.
RECURSIVE N_request(_, _, _, _, _, _)

\* makeProxiedRequest(originalOptions, callback, originalMethod), where
\* originalMethod is layer `below` of http
makeProxiedRequest(originalOptions, callback, below, stack) ==
  IF ~ Truthy(N_service(originalOptions))
  THEN Logged(N_debug("No service detected"),
              N_request("http", below, JsObject(originalOptions), callback,
                        JsUndefined, stack - 1))
  ELSE IF ~ NewURL(config.proxyBase).ok
  THEN Outcome(<<>>, "ERR_INVALID_URL", {})
  ELSE Logged(N_debug("Proxying"),
              N_request("http", below, JsObject(N_proxyOptions(originalOptions)),
                        callback, JsUndefined, stack - 1))

\* the patched function's body once opts = normalizeOptions(options, ...)
N_patched(entry, layer, a1, a2, opts, stack) ==
  Logged(N_shouldInterceptLog(opts.hostname),
         IF N_shouldIntercept(opts.hostname)
         THEN makeProxiedRequest(opts, a2, layer - 1, stack)
         ELSE N_request(entry, layer - 1, a1, a2, JsUndefined, stack - 1))

N_request(entry, layer, a1, a2, a3, stack) ==
  IF stack = 0 THEN Outcome(<<>>, "RangeError", {})
  ELSE IF layer = 0 THEN NodeRequest(entry, a1, a2, a3)
  ELSE IF a1.t \notin {"string", "object"} THEN Outcome(<<>>, "TypeError", {})
  ELSE N_patched(entry, layer, a1, a2, normalizeOptions(a1, EntryProtocol(entry)), stack)

\* ============================================ launchers (src/index.js 1-386)
NoEnv ==
  [BLOOM_AUTH |-> Undef, BLOOM_PROXY |-> Undef, DEBUG |-> Undef, NODE_ENV |-> Undef,
   MCP_SERVICE_NAME |-> Undef, BLOOM_SERVICE |-> Undef, BLOOM_DEBUG |-> Undef,
   BLOOM_DEV |-> Undef, package |-> Undef,
   BLOOM_INTERCEPT_ENABLED |-> Undef, BLOOM_INTERCEPT_SERVICE |-> Undef,
   BLOOM_INTERCEPT_PROXY |-> Undef, BLOOM_INTERCEPT_ORG_KEY |-> Undef,
   BLOOM_INTERCEPT_AGENT_ID |-> Undef, BLOOM_INTERCEPT_DEBUG |-> Undef]

\* --- bloom-mcp-proxy (index.js 1-227), which preloads network-interceptor
M_config ==
  [auth |-> env.BLOOM_AUTH,
   service |-> env.BLOOM_SERVICE,
   proxy |-> IF env.BLOOM_DEV = "true" /\ ~ Truthy(env.BLOOM_PROXY)
             THEN BLOOM_PROXY_DEV
             ELSE Or(env.BLOOM_PROXY, BLOOM_PROXY_PROD),
   debug |-> env.BLOOM_DEBUG = "true",
   dev |-> env.BLOOM_DEV = "true"]

\* parts = auth.split('_agent_'); orgKey = parts[0].replace('bloom_', '')
orgKey == ReplaceFirst(SplitPart0(M_config.auth, "_agent_"), "bloom_", "")
\* agentId = parts[1]
M_agentId == SplitPart1(M_config.auth, "_agent_")

M_extractServiceName(packageName) ==
  ReplaceFirst(ReplaceFirst(ReplaceFirst(packageName,
    "@modelcontextprotocol/server-", ""), "mcp-server-", ""), "-mcp", "")

\* the launcher stops (process.exit(1)) before it spawns anything
M_exits ==
  \/ ~ Truthy(env.package)
  \/ ~ Truthy(M_config.auth)
  \/ ~ Includes(M_config.auth, "_agent_")

M_stdout ==
  (IF ~ Truthy(env.package) THEN {"help"} ELSE {})
  \cup (IF Truthy(env.package) /\ M_config.dev /\ ~ Truthy(env.BLOOM_PROXY)
        THEN {"Development mode"} ELSE {})
  \cup (IF M_exits THEN {}
        ELSE {"Starting MCP server with Bloom proxy"}
             \cup (IF M_config.debug THEN {"Debug mode enabled"} ELSE {}))

M_stderr ==
  IF ~ Truthy(env.package) THEN {"Error: MCP server package name is required"}
  ELSE IF ~ Truthy(M_config.auth) THEN {"Error: BLOOM_AUTH environment variable is required"}
  ELSE IF ~ Includes(M_config.auth, "_agent_") THEN {"Error: Invalid BLOOM_AUTH format"}
  ELSE {}

childEnv ==
  [env EXCEPT
     !.BLOOM_INTERCEPT_SERVICE = Or(M_config.service, M_extractServiceName(env.package)),
     !.BLOOM_INTERCEPT_PROXY = M_config.proxy,
     !.BLOOM_INTERCEPT_ORG_KEY = orgKey,
     !.BLOOM_INTERCEPT_AGENT_ID = M_agentId,
     !.BLOOM_INTERCEPT_ENABLED = "true",
     !.BLOOM_INTERCEPT_DEBUG = IF M_config.debug THEN "true" ELSE "false"]

LaunchProxy ==
  /\ pc = "start"
  /\ stdout' = stdout \cup M_stdout
  /\ stderr' = stderr \cup M_stderr
  /\ IF M_exits
     THEN pc' = "exited" /\ UNCHANGED <<env, variant>>
     ELSE pc' = "child" /\ env' = childEnv /\ variant' = "netint"
  /\ UNCHANGED <<loaded, consts, wrapDepth, call, result, invoked>>

\* --- bloom-wrapper (index.js 228-386), which preloads bloom-proxy-loader
W_debug(kind) == IF Includes(DEBUG, "bloom") THEN {"[bloom-wrapper] " \o kind} ELSE {}

W_exits == ~ Truthy(BLOOM_AUTH) \/ ~ Truthy(env.package)

W_childEnv ==
  [env EXCEPT !.BLOOM_PROXY = BLOOM_PROXY, !.DEBUG = DEBUG]

LaunchWrapper ==
  /\ pc = "start"
  /\ stderr' = stderr \cup
       (IF ~ Truthy(BLOOM_AUTH)
        THEN {"[bloom-wrapper] ERROR: BLOOM_AUTH environment variable is required"}
        ELSE IF ~ Truthy(env.package)
        THEN {"[bloom-wrapper] ERROR: No MCP server specified"}
        ELSE W_debug("Target") \cup W_debug("Spawning") \cup W_debug("Wrapper started"))
  /\ IF W_exits
     THEN pc' = "exited" /\ UNCHANGED <<env, variant>>
     ELSE pc' = "child" /\ env' = W_childEnv /\ variant' = "loader"
  /\ UNCHANGED <<stdout, loaded, consts, wrapDepth, call, result, invoked>>

\* ====================================================== loading the engine
NoConsts == [agentId |-> Undef, proxyUrl |-> EmptyOptions, WHITELIST |-> {}]

\* bloom-proxy-loader.js run top to bottom
L_loadInstalls == Truthy(BLOOM_AUTH) /\ authMatch(BLOOM_AUTH)

L_loadLog ==
  IF ~ Truthy(BLOOM_AUTH)
  THEN {"[bloom-proxy-loader] Warning: BLOOM_AUTH not set, interception disabled"}
  ELSE IF ~ authMatch(BLOOM_AUTH)
  THEN {"[bloom-proxy-loader] Warning: Invalid BLOOM_AUTH format"}
  ELSE L_debug("Initializing") \cup L_debug("HTTP/HTTPS interception installed successfully")

LoadLoader ==
  /\ pc = "child" /\ variant = "loader"
  /\ wrapDepth < MaxInstalls /\ call.kind = "none"
  /\ loaded' = TRUE
  /\ stderr' = stderr \cup L_loadLog
  /\ IF L_loadInstalls
     THEN /\ consts' = [consts EXCEPT !.agentId = authMatch2(BLOOM_AUTH),
                                      !.proxyUrl = UrlParse(BLOOM_PROXY)]
          /\ wrapDepth' = wrapDepth + 1
     ELSE UNCHANGED <<consts, wrapDepth>>
  /\ UNCHANGED <<pc, variant, env, stdout, call, result, invoked>>

\* network-interceptor.js run top to bottom
N_loadEnabled == env.BLOOM_INTERCEPT_ENABLED = "true"

LoadNetint ==
  /\ pc = "child" /\ variant = "netint"
  /\ wrapDepth < MaxInstalls /\ call.kind = "none"
  /\ loaded' = TRUE
  /\ stderr' = stderr \cup
       (IF N_loadEnabled THEN N_debug("Interceptor loaded with config") ELSE {})
  /\ IF ~ N_loadEnabled THEN UNCHANGED <<pc, consts, wrapDepth>>
     ELSE IF WhitelistThrows THEN pc' = "crashed" /\ UNCHANGED <<consts, wrapDepth>>
     ELSE /\ consts' = [consts EXCEPT !.WHITELIST = WhitelistAt(config.proxyBase)]
          /\ wrapDepth' = wrapDepth + 1
          /\ UNCHANGED pc
  /\ UNCHANGED <<variant, env, stdout, call, result, invoked>>

Load == LoadLoader \/ LoadNetint

\* =========================================================== outbound calls
\* Destination hostnames the monitored process calls.
Hostnames ==
  {"api.github.com", "api.openai.com", "google.serper.dev", "api.unknown.com",
   "myapi.example.com", "service.company.io", "",
   "localhost", "127.0.0.1", "::1", "10.0.0.5", "172.16.0.1", "192.168.1.10",
   "registry.npmjs.org", "registry.yarnpkg.com", "unpkg.com", "cdn.jsdelivr.net",
   "api.bloomtechnologies.app"}

\* The hostnames called in every calling convention and request shape.
ShapedHostnames == {"api.github.com", "myapi.example.com", "192.168.1.10", "localhost"}

\* Paths given in an options object, and paths an address string can carry.
OptionPaths == {Undef, "v1/models", "/repos/x/y"}
UrlPaths == {"", "/repos/x/y"}

\* The caller's own headers: its credentials in three letter-casings.
CallerHeaders(authorization, apiKey) ==
  [k \in {authorization, apiKey, "Accept"} |->
     IF k = "Accept" THEN "application/json" ELSE "caller-secret"]

HeaderSets ==
  { << >>,
    CallerHeaders("Authorization", "X-API-Key"),
    CallerHeaders("authorization", "x-api-key"),
    CallerHeaders("AUTHORIZATION", "X-API-KEY") }

\* the method the caller names with a set of headers
MethodWith(headers) == IF headers = << >> THEN Undef ELSE "POST"

TheCallback == JsFunction("cb")

Address(entry, hostname, path) ==
  EntryProtocol(entry) \o "//"
  \o (IF Includes(hostname, ":") THEN "[" \o hostname \o "]" ELSE hostname) \o path

\* the arguments of a call in convention conv
Arguments(conv, entry, hostname, path, method, headers) ==
  LET address == JsString(Address(entry, hostname, path))
      extra == JsObject([EmptyOptions EXCEPT !.method = method, !.headers = headers])
      whole == JsObject([EmptyOptions EXCEPT !.hostname = hostname, !.path = path,
                                             !.method = method, !.headers = headers])
  IN  CASE conv = "url" -> <<address, JsUndefined, JsUndefined>>
        [] conv = "url+cb" -> <<address, TheCallback, JsUndefined>>
        [] conv = "url+options+cb" -> <<address, extra, TheCallback>>
        [] conv = "options" -> <<whole, JsUndefined, JsUndefined>>
        [] conv = "options+cb" -> <<whole, TheCallback, JsUndefined>>

ArgsOf(c) == Arguments(c.conv, c.entry, c.hostname, c.path, c.method, c.headers)

NoCall == [kind |-> "none"]
NoResult == Outcome(<<>>, "none", {})

\* http.request / https.request as currently installed, applied to a call
Installed(entry, a1, a2, a3) ==
  IF variant = "loader"
  THEN createInterceptor(entry, wrapDepth, a1, a2, a3, MaxStack)
  ELSE N_request(entry, wrapDepth, a1, a2, a3, MaxStack)

Request(entry, conv, hostname, path, method, headers) ==
  LET args == Arguments(conv, entry, hostname, path, method, headers)
  IN  /\ pc = "child" /\ loaded /\ call.kind = "none"
      /\ call' = [kind |-> "request", entry |-> entry, conv |-> conv,
                  hostname |-> hostname, path |-> path, method |-> method,
                  headers |-> headers]
      /\ result' = Installed(entry, args[1], args[2], args[3])
      /\ invoked' = {}
      /\ UNCHANGED <<pc, variant, env, loaded, consts, wrapDepth, stdout, stderr>>

\* The request issued last answers: its response listener is invoked.
Respond ==
  /\ call.kind = "request" /\ result.err = "none" /\ Len(result.sent) > 0
  /\ invoked = {}
  /\ CallbackOf(result.sent[Len(result.sent)]).t = "function"
  /\ invoked' = {CallbackOf(result.sent[Len(result.sent)]).id}
  /\ UNCHANGED <<pc, variant, env, loaded, consts, wrapDepth, stdout, stderr, call, result>>

\* the interceptor made the request issued last: the one handle it puts a
\* listener on (proxyReq.on('error', ...))
L_proxyReqIssued ==
  /\ variant = "loader"
  /\ "X-Original-Host" \in DOMAIN OptionsOf(result.sent[Len(result.sent)]).headers

\* a transport failure answered by a second request, to the caller's own
\* destination
FailWithFallback ==
  /\ call.kind = "request" /\ result.err = "none" /\ Len(result.sent) > 0
  /\ invoked = {}
  /\ invoked' = {"error"}
  /\ result' = [result EXCEPT !.sent =
                  Append(@, Delivery(call.entry, ArgsOf(call)[1], ArgsOf(call)[2],
                                     ArgsOf(call)[3]))]
  /\ UNCHANGED <<pc, variant, env, loaded, consts, wrapDepth, stdout, stderr, call>>

\* The request issued last fails in transport (connection refused, timeout,
\* TLS): the runtime emits 'error' on its handle, which is the handle the
\* caller was returned.  The loader's listener writes a debug line; neither
\* engine does anything else.
Fail ==
  /\ call.kind = "request" /\ result.err = "none" /\ Len(result.sent) > 0
  /\ invoked = {}
  /\ invoked' = {"error"}
  /\ result' = IF L_proxyReqIssued
               THEN Logged(L_debug("Proxy request error"), result)
               ELSE result
  /\ UNCHANGED <<pc, variant, env, loaded, consts, wrapDepth, stdout, stderr, call>>

\* The caller is done with the call.
Finish ==
  /\ call.kind = "request"
  /\ call' = NoCall /\ result' = NoResult /\ invoked' = {}
  /\ UNCHANGED <<pc, variant, env, loaded, consts, wrapDepth, stdout, stderr>>

\* ============================================================ specification
Credentials == {Undef, "bloom_org_abc_agent_123", "bloom_key_abc_agent_xyz"}

RelayAddresses == {Undef, "http://localhost:8000", "bloom-relay"}

ServiceNames == {Undef, "notion"}

\* the environment a user gives either launcher
UserEnv(auth, proxy, service, dbg) ==
  [NoEnv EXCEPT
     !.BLOOM_AUTH = auth, !.BLOOM_PROXY = proxy,
     !.MCP_SERVICE_NAME = service, !.BLOOM_SERVICE = service,
     !.DEBUG = IF dbg THEN "bloom" ELSE Undef,
     !.BLOOM_DEBUG = IF dbg THEN "true" ELSE Undef,
     !.package = "@modelcontextprotocol/server-github"]

\* the configuration bundle another orchestrator hands the network-interceptor
BundleEnv(enabled, proxy, service, org) ==
  [NoEnv EXCEPT
     !.BLOOM_INTERCEPT_ENABLED = IF enabled THEN "true" ELSE Undef,
     !.BLOOM_INTERCEPT_PROXY = proxy,
     !.BLOOM_INTERCEPT_SERVICE = service,
     !.BLOOM_INTERCEPT_ORG_KEY = org,
     !.BLOOM_INTERCEPT_AGENT_ID = IF org = Undef THEN Undef ELSE "123"]

\* --- the engine file named directly to the runtime (node --require <file>)
\* by an orchestrator other than the two launchers: the loader in the
\* environment as it is, the network-interceptor with a bundle
PreloadLoader ==
  /\ pc = "start"
  /\ pc' = "child"
  /\ variant' = "loader"
  /\ UNCHANGED <<env, stdout, stderr, loaded, consts, wrapDepth, call, result, invoked>>

PreloadNetint ==
  /\ pc = "start"
  /\ pc' = "child"
  /\ variant' = "netint"
  /\ \E proxy \in RelayAddresses, service \in ServiceNames, org \in {Undef, "org_abc"} :
       env' = BundleEnv(env.BLOOM_DEBUG # "true", proxy, service, org)
  /\ UNCHANGED <<stdout, stderr, loaded, consts, wrapDepth, call, result, invoked>>

Init ==
  /\ pc = "start"
  /\ variant = "none"
  /\ env \in {UserEnv(a, p, s, d) : a \in Credentials, p \in RelayAddresses,
                                    s \in ServiceNames, d \in BOOLEAN}
  /\ loaded = FALSE
  /\ consts = NoConsts
  /\ wrapDepth = 0
  /\ stdout = {}
  /\ stderr = {}
  /\ call = NoCall
  /\ result = NoResult
  /\ invoked = {}

Launch == LaunchProxy \/ LaunchWrapper \/ PreloadLoader \/ PreloadNetint

\* a call in any convention and shape to one of the hostnames
RequestTo(hostnames) ==
  \E entry \in {"http", "https"}, hostname \in hostnames, headers \in HeaderSets :
    \/ \E conv \in {"url", "url+cb"}, path \in UrlPaths :
         /\ headers = << >>
         /\ Request(entry, conv, hostname, path, Undef, headers)
    \/ \E path \in UrlPaths :
         Request(entry, "url+options+cb", hostname, path, MethodWith(headers), headers)
    \/ \E conv \in {"options", "options+cb"}, path \in OptionPaths :
         Request(entry, conv, hostname, path, MethodWith(headers), headers)

\* a call with nothing but a destination
PlainRequest ==
  \E entry \in {"http", "https"}, hostname \in Hostnames :
    \/ hostname # "" /\ Request(entry, "url+cb", hostname, "/repos/x/y", Undef, << >>)
    \/ Request(entry, "options", hostname, "/repos/x/y", Undef, << >>)

Next ==
  \/ Launch
  \/ Load
  \/ RequestTo(ShapedHostnames)
  \/ Respond
  \/ Fail
  \/ Finish

Spec == Init /\ [][Next]_vars

\* The same process calling every destination hostname.
NextHosts ==
  \/ Launch
  \/ Load
  \/ PlainRequest
  \/ Respond
  \/ Fail
  \/ Finish

SpecHosts == Init /\ [][NextHosts]_vars

\* Request targets with a query string: a plain one, one that contains "?",
\* one with a character URL encoders escape; and a target without any.
QueryPaths == {"/search", "/search?q=a", "/search?q=a?b", "/search?q='a'"}

\* a call, by address or by options, whose target is one of these
QueryRequest ==
  \E entry \in {"http", "https"}, path \in QueryPaths :
    \/ Request(entry, "url+cb", "api.github.com", path, Undef, << >>)
    \/ Request(entry, "options", "api.github.com", path, Undef, << >>)

\* The same process calling with query strings.
NextQuery ==
  \/ Launch
  \/ Load
  \/ QueryRequest
  \/ Respond
  \/ Fail
  \/ Finish

SpecQuery == Init /\ [][NextQuery]_vars

\* ============================================================== observables
\* An engine is installed and the monitored process has a call in flight.
Active == pc = "child" /\ wrapDepth >= 1 /\ call.kind = "request"

\* what shouldIntercept returns for the call in flight, in the engine loaded
Decision ==
  IF variant = "loader"
  THEN L_shouldIntercept(L_requestOptions(ArgsOf(call)[1], ArgsOf(call)[2]))
  ELSE N_shouldIntercept(normalizeOptions(ArgsOf(call)[1], EntryProtocol(call.entry)).hostname)

\* the classifier of the engine loaded, and the service name its
\* configuration declares
Classified(hostname) ==
  IF variant = "loader" THEN L_extractServiceName(hostname) ELSE detectService(hostname)

DeclaredService == IF variant = "loader" THEN MCP_SERVICE_NAME ELSE config.service

\* the relay base address the engine was given
RelayAddress == IF variant = "loader" THEN BLOOM_PROXY ELSE config.proxyBase

RelayWellFormed == RelayAddress # Undef /\ Includes(RelayAddress, "://")

RelayHost == IF RelayWellFormed THEN UrlParse(RelayAddress).hostname ELSE Undef

RelayPort ==
  Or(UrlParse(RelayAddress).port, DefaultPort(UrlParse(RelayAddress).protocol))

\* the requests the entry points of the runtime were given for the call
Sent == {result.sent[i] : i \in DOMAIN result.sent}

\* Both engines mark the request they build for the relay with X-Original-Host.
Rewritten(d) == "X-Original-Host" \in DOMAIN OptionsOf(d).headers

RelayRequests == {d \in Sent : Rewritten(d)}

\* The call went to the entry point the caller called, once, with the
\* caller's own first argument and destination, and nothing went to the relay.
PassedThrough ==
  /\ result.err = "none"
  /\ Len(result.sent) = 1
  /\ result.sent[1].entry = call.entry
  /\ result.sent[1].a1 = ArgsOf(call)[1]
  /\ OptionsOf(result.sent[1]).hostname = call.hostname
  /\ RelayRequests = {}

\* ================================================================== claims

\* ------------------------------------------------------------------- C1
Loopback == {"localhost", "127.0.0.1", "::1"}
PrivateAddresses == {"10.0.0.5", "172.16.0.1", "192.168.1.10"}
RegistryDomains ==
  {"registry.npmjs.org", "registry.yarnpkg.com", "unpkg.com", "cdn.jsdelivr.net"}

InBypassSet(hostname) ==
  \/ hostname \in Loopback
  \/ hostname \in PrivateAddresses
  \/ RelayHost # Undef /\ Includes(hostname, RelayHost)
  \/ \E d \in RegistryDomains : Includes(hostname, d)

\* C1: in each engine, for every call whose destination hostname is a
\* loopback address, lies in a private range, equals or contains the relay's
\* hostname or matches a registry/CDN domain, shouldIntercept returns false,
\* whether or not a service name is declared.
C1_BypassSetsNeverIntercepted ==
  Active /\ InBypassSet(call.hostname) => ~ Decision

\* ------------------------------------------------------------------- C2
\* C2: for every intercepted call and every letter-casing of the caller's
\* Authorization and X-API-Key header names, no header of the request sent to
\* the relay carries the caller's value, and the only authorization entry is
\* the relay bearer credential.
C2_CallerCredentialsStripped ==
  Active =>
    \A d \in RelayRequests :
      \A k \in DOMAIN OptionsOf(d).headers :
        /\ OptionsOf(d).headers[k] # "caller-secret"
        /\ ToLowerCase(k) = "authorization"
             => k = "Authorization" /\ StartsWith(OptionsOf(d).headers[k], "Bearer ")

\* ------------------------------------------------------------------- C3
ServiceIdentifiers ==
  {"mcp", "notion"} \cup {SERVICE_MAP[i][2] : i \in DOMAIN SERVICE_MAP}

\* p' of the claim: "/" for a missing or empty path, the path behind a "/"
\* otherwise
Slashed(p) ==
  IF p = Undef \/ p = "" THEN "/"
  ELSE IF StartsWith(p, "/") THEN p ELSE "/" \o p

\* C3: for every intercepted call with service s and original path p, the
\* rewritten path is "/proxy/" + s + p', with a "/" right after the service
\* name whatever p is.
C3_PathHasSlashAfterService ==
  Active =>
    \A d \in RelayRequests :
      \E s \in ServiceIdentifiers :
        OptionsOf(d).path = "/proxy/" \o s \o Slashed(call.path)

\* ------------------------------------------------------------------- C4
ExpectedService ==
  [h \in {"api.github.com", "api.openai.com", "google.serper.dev", "api.unknown.com",
          "myapi.example.com", "service.company.io", ""} |->
     CASE h = "api.github.com" -> "github"
       [] h = "api.openai.com" -> "openai"
       [] h = "google.serper.dev" -> "serper"
       [] h = "api.unknown.com" -> "unknown"
       [] h = "myapi.example.com" -> "myapi"
       [] h = "service.company.io" -> "service"
       [] OTHER -> Undef]

\* C4: the classifier maps a hostname of the static table to the table's
\* service, any other hostname to its second label behind a leading "api" and
\* to its leading label otherwise, and the empty hostname to absent.
C4_ClassifierTable ==
  Active /\ call.hostname \in DOMAIN ExpectedService
    => Classified(call.hostname) = ExpectedService[call.hostname]

\* ------------------------------------------------------------------- C5
\* C5: a call for whose hostname the classifier yields no service, in a
\* process whose configuration declares no service name, is not intercepted:
\* it is handed to the original entry point with its original destination and
\* nothing is sent to the relay for it.
C5_UnknownPassesThrough ==
  Active /\ ~ Truthy(Classified(call.hostname)) /\ ~ Truthy(DeclaredService)
    => PassedThrough

\* an https call to a hostname outside every bypass set which no table entry
\* matches, with the relay credential present and no service declared
C5_Witness ==
  /\ Active /\ variant = "netint"
  /\ call.hostname = "myapi.example.com" /\ call.entry = "https"
  /\ Truthy(config.orgKey) /\ Truthy(config.agentId)
  /\ ~ InBypassSet(call.hostname)
  /\ ~ Truthy(Classified(call.hostname)) /\ ~ Truthy(DeclaredService)
  /\ Len(result.sent) = 1

\* ------------------------------------------------------------------- C6
\* C6: when a service name is declared, every rewritten call uses it as
\* <service> in "/proxy/<service>", also for hostnames the static table
\* classifies as another service; the classifier's result is used only when
\* no name is declared.
C6_DeclaredServiceWins ==
  Active =>
    \A d \in RelayRequests :
      StartsWith(OptionsOf(d).path,
                 "/proxy/" \o (IF Truthy(DeclaredService) THEN DeclaredService
                               ELSE Classified(call.hostname)))

\* ------------------------------------------------------------------- C7
\* C7: running the installation code twice has the effect of running it once:
\* the entry points are not wrapped around the first wrappers, an intercepted
\* call makes one request to the relay and none to its destination, a bypassed
\* call makes one request to its destination.
C7_InstallIdempotent ==
  /\ wrapDepth <= 1
  /\ Active /\ result.err = "none" => Len(result.sent) = 1

\* ------------------------------------------------------------------- C8
\* the agent-id part of a credential <prefix>_<org-key>_agent_<agent-id>
AgentIdPart(credential) == From(credential, LastIndexOf(credential, "_agent_") + 7)

\* C8: for a credential <prefix>_<org-key>_agent_<agent-id> of the environment
\* and every intercepted call, the rewritten request goes to the relay's host
\* and port with Authorization "Bearer " + the credential as supplied,
\* X-Agent-ID the credential's agent-id part and X-Original-Host the original
\* destination hostname.
C8_RelayHeaders ==
  Active /\ Truthy(env.BLOOM_AUTH) /\ Includes(env.BLOOM_AUTH, "_agent_") =>
    \A d \in RelayRequests :
      /\ OptionsOf(d).hostname = RelayHost
      /\ OptionsOf(d).port = RelayPort
      /\ {"Authorization", "X-Agent-ID", "X-Original-Host"}
           \subseteq DOMAIN OptionsOf(d).headers
      /\ OptionsOf(d).headers["Authorization"] = "Bearer " \o env.BLOOM_AUTH
      /\ OptionsOf(d).headers["X-Agent-ID"] = AgentIdPart(env.BLOOM_AUTH)
      /\ OptionsOf(d).headers["X-Original-Host"] = call.hostname

\* ------------------------------------------------------------------- C9
CredentialMissing ==
  IF variant = "loader"
  THEN ~ Truthy(BLOOM_AUTH) \/ ~ Includes(BLOOM_AUTH, "_agent_")
  ELSE ~ Truthy(config.orgKey) \/ ~ Truthy(config.agentId)

\* C9: when the credential or the relay base address is absent or malformed
\* at load, loading does not throw, a diagnostic is written, and every call
\* made afterwards reaches its original destination unmodified with nothing
\* sent to the relay.
C9_BadConfigurationFailsSafe ==
  variant # "none" /\ (variant = "netint" => N_loadEnabled)
  /\ (CredentialMissing \/ ~ RelayWellFormed)
    => /\ pc # "crashed"
       /\ loaded => stderr # {}
       /\ loaded /\ call.kind = "request" => PassedThrough

\* ------------------------------------------------------------------ C10
CallHasCallback == call.conv \in {"url+cb", "options+cb", "url+options+cb"}

\* C10: in every calling convention an intercepted call is rewritten with the
\* method, headers and path of the caller's effective request, the caller's
\* callback is attached to the rewritten request and is the one invoked when
\* the relay responds, and the caller gets a request handle.
C10_ConventionsPreserved ==
  Active /\ Decision /\ RelayWellFormed =>
    /\ result.err = "none"
    /\ \E d \in RelayRequests :
         /\ OptionsOf(d).method = Or(call.method, "GET")
         /\ "Accept" \in DOMAIN call.headers
              => "Accept" \in DOMAIN OptionsOf(d).headers
         /\ CallHasCallback => CallbackOf(d) = TheCallback
    /\ invoked # {} /\ "error" \notin invoked
         => CallHasCallback /\ invoked = {TheCallback.id}

\* ------------------------------------------------------------------ C11
\* C11: when the request to the relay fails in transport or the relay answers
\* (with an error response or any other), the engine issues no further request
\* for the call, neither to the relay nor to the original destination, and the
\* failure or the response reaches the caller through the error event of the
\* handle it was returned or through its completion callback.
C11_NoRetryNoFallback ==
  [][call.kind = "request" /\ call'.kind = "request" =>
       /\ result'.sent = result.sent
       /\ invoked' # invoked =>
            \/ invoked' = {"error"}
            \/ CallHasCallback /\ invoked' = {TheCallback.id}]_vars

\* the one request of an intercepted call went to the relay and failed
C11_Witness ==
  /\ Active /\ Decision
  /\ Len(result.sent) = 1 /\ RelayRequests # {}
  /\ invoked = {"error"}

\* ------------------------------------------------------------------ C12
\* what follows the first "?" of a request target, Undef when it has no "?"
QueryOf(target) ==
  IF IndexOf(target, "?") = 0 THEN Undef ELSE From(target, IndexOf(target, "?") + 1)

\* C12: the request target of a rewritten call is the rewritten path followed
\* by "?" and the original query string unchanged character for character,
\* also when the query contains "?" or characters a URL encoder escapes; a
\* call without a query string gets none.
C12_QueryPreservedVerbatim ==
  Active =>
    \A d \in RelayRequests : QueryOf(OptionsOf(d).path) = QueryOf(call.path)

\* ------------------------------------------------------------------ C13
\* debug logging is enabled for the launcher (BLOOM_DEBUG), for the wrapper
\* and the loader (DEBUG) or for the network-interceptor
DebugLogging ==
  env.BLOOM_DEBUG = "true" \/ Includes(DEBUG, "bloom") \/ config.debug

\* C13: the launcher and the engine write diagnostic lines to the error
\* stream only, and only with debug logging enabled; with debug logging on or
\* off nothing is ever written to the standard output stream, which the
\* monitored process shares for its protocol traffic.  (The error stream is
\* looked at once the monitored process runs, which leaves aside the messages
\* a launcher exits with.)
C13_QuietStandardOutput ==
  /\ stdout = {}
  /\ pc = "child" /\ (stderr # {} \/ result.log # {}) => DebugLogging

\* ------------------------------------------------------------------ C14
\* C14: in bloom-proxy-loader.js the rewritten request re-enters the installed
\* entry point and, for every relay base address with which installation
\* proceeds, is not rewritten again: the relay-hostname check bypasses it to
\* the original entry point, so an intercepted call ends after exactly one
\* relay request, without unbounded recursion.
C14_ReentryTerminates ==
  Active /\ variant = "loader" /\ Decision =>
    /\ result.err = "none"
    /\ Len(result.sent) = 1
    /\ Rewritten(result.sent[1])
    /\ result.sent[1].entry = ProxyModule

\* ------------------------------------------------------------------ C15
\* the entry point of the relay's scheme
RelayEntry == IF UrlParse(RelayAddress).protocol = "https:" THEN "https" ELSE "http"

\* C15: whether the call came through the plain or the encrypted entry point,
\* the rewritten request goes to the original entry point of the relay's
\* scheme (encrypted for an https relay, plain for an http one), and no
\* request with protocol https: is handed to the original plain entry point.
C15_DispatchMatchesRelayScheme ==
  Active /\ RelayWellFormed =>
    /\ \A d \in RelayRequests : d.entry = RelayEntry
    /\ \A d \in Sent : OptionsOf(d).protocol = "https:" => d.entry # "http"

\* ------------------------------------------------------------------ C16
\* C16: a call the engine decides not to intercept is forwarded exactly once
\* to the original entry point of the protocol it was made on, which gets the
\* caller's address, options and completion callback, in every calling
\* convention (address + options + callback included); the caller's own
\* options and headers are what it passed.
C16_BypassForwardsEverything ==
  Active /\ ~ Decision =>
    /\ result.err = "none"
    /\ Len(result.sent) = 1
    /\ result.sent[1].entry = call.entry
    /\ OptionsOf(result.sent[1]) = NodeOptions(ArgsOf(call)[1], ArgsOf(call)[2])
    /\ CallbackOf(result.sent[1])
         = NodeCallback(ArgsOf(call)[1], ArgsOf(call)[2], ArgsOf(call)[3])

==========================================================================
